---- MODULE Spec2Model ----
(***************************************************************************)
(* Model of gox's MainCLI (pkg/cli.go): the sequential preamble (flag      *)
(* parsing, parallelism resolution, toolchain checks, package and platform *)
(* discovery) and the bounded-parallel dispatch of one goroutine per       *)
(* (platform, package) pair, with the buffered channel used as a counting  *)
(* semaphore, the sync.WaitGroup barrier, the sync.Mutex guarding the      *)
(* shared error slice, and the final report / exit status.                 *)
(*                                                                         *)
(* The per-unit progress line printed at cli.go:132 goes to stdout only    *)
(* and is read by nothing; it is not recorded in the model's stdout.       *)
(***************************************************************************)
EXTENDS Integers, Sequences, FiniteSets, TLC

VARIABLES
    mainpc,     \* position of the main goroutine inside MainCLI
    parallel,   \* cli.go:21   resolved parallelism, capacity of the semaphore
    ldflags,    \* cli.go:19   global -ldflags value
    flagGcflags,  \* cli.go:26 global -gcflags value
    flagAsmflags, \* cli.go:26 global -asmflags value
    mainDirs,   \* cli.go:104  packages returned by GoMainDirs
    platforms,  \* cli.go:111  platforms returned by platformFlag.Platforms
    next,       \* number of iterations of the nested loop (125-126) done so far
    pc,         \* position of each unit's goroutine (cli.go:129-160)
    err,        \* each goroutine's local err: result of GoCrossCompile (153)
    compiles,   \* number of times GoCrossCompile was invoked for each unit
    opts,       \* cli.go:134  each goroutine's CompileOpts
    semaphore,  \* cli.go:124  contents of the buffered channel
    errorLock,  \* cli.go:121  TRUE iff the mutex is locked
    wg,         \* cli.go:122  the WaitGroup's counter
    errors,     \* cli.go:123  the shared slice of failure messages
    stdout,     \* lines MainCLI printed to standard output
    stderr,     \* lines MainCLI printed to standard error
    exit,       \* value returned by MainCLI; NoExit while it is running
    call,       \* a helper applied on its own: its name and arguments
    ret         \* the value that application returned

vars == <<mainpc, parallel, ldflags, flagGcflags, flagAsmflags, mainDirs,
          platforms, next, pc, err, compiles, opts, semaphore, errorLock, wg,
          errors, stdout, stderr, exit, call, ret>>

flagVars == <<ldflags, flagGcflags, flagAsmflags>>
pureVars == <<call, ret>>

-----------------------------------------------------------------------------
(* Bounds of the model *)

MaxDirs == 1
MaxCPUs == 2
MaxParallelFlag == 2

\* the helpers applied on their own: detected cores, supplied -parallel value
MaxCores == 8
MaxSupplied == 4

-----------------------------------------------------------------------------
(* Values *)

NoExit == -1
Nil == "nil"
Pending == "pending"

SolarisParallel == 3

GOOSValues == {"linux", "solaris"}

\* no helper is applied on its own; no value returned yet
NoCall == [fn |-> "none"]
NoRet == << >>

\* the -ldflags, -gcflags and -asmflags values a caller passes
FlagInputs ==
    { [Ldflags |-> "",   Gcflags |-> "",   Asmflags |-> ""],
      [Ldflags |-> "-s", Gcflags |-> "-N", Asmflags |-> "-trimpath" ] }

\* the zero value of CompileOpts
NoOpts ==
    [PackagePath |-> "", Platform |-> [OS |-> "", Arch |-> ""],
     Ldflags |-> "", Gcflags |-> "", Asmflags |-> ""]

\* the process environment: an LDFLAGS override for linux/amd64, a GCFLAGS
\* override for darwin/amd64, and an ASMFLAGS variable that is set but empty
Environ ==
    ("GOX_LINUX_AMD64_LDFLAGS" :> "-X main.os=linux")
    @@ ("GOX_DARWIN_AMD64_GCFLAGS" :> "-l")
    @@ ("GOX_LINUX_AMD64_ASMFLAGS" :> "")

\* os.Getenv: the empty string for a variable that is not set
Getenv(key) == IF key \in DOMAIN Environ THEN Environ[key] ELSE ""

\* strings.ToUpper on the OS, Arch and category names in use
ToUpper(str) ==
    CASE str = "linux"   -> "LINUX"
      [] str = "darwin"  -> "DARWIN"
      [] str = "windows" -> "WINDOWS"
      [] str = "amd64"   -> "AMD64"
      [] str = "arm"     -> "ARM"
      [] str = "386"     -> "386"
      [] OTHER           -> str

\* the error GoCrossCompile returns when the go build fails
CompileErrors == {"exit status 2"}

\* the platforms the toolchain supports, in canonical order
SupportedPlatforms ==
    << [OS |-> "linux",  Arch |-> "amd64"],
       [OS |-> "darwin", Arch |-> "amd64"] >>

\* names of the main packages GoMainDirs can find
KnownDirs == << "cmd/a", "cmd/b", "cmd/c", "cmd/d" >>

Min(a, b) == IF a < b THEN a ELSE b

Range(s) == { s[k] : k \in 1..Len(s) }

\* canonical string form of a platform
String(p) == p.OS \o "/" \o p.Arch

\* the ordered sub-lists of a duplicate-free list s: what the platform
\* selection can return for some filter
RECURSIVE SubLists(_)
SubLists(s) ==
    IF s = << >> THEN { << >> }
    ELSE LET rest == SubLists(Tail(s))
         IN  rest \cup { <<Head(s)>> \o r : r \in rest }

\* the lists GoMainDirs can return
DirLists == { SubSeq(KnownDirs, 1, n) : n \in 0..Min(MaxDirs, Len(KnownDirs)) }

AllUnits == Range(SupportedPlatforms) \X UNION { Range(d) : d \in DirLists }

-----------------------------------------------------------------------------
(* Pure helpers of MainCLI *)

\* cli.go:54-69
ResolveParallelNoFloor(flag, cpus, goos) ==
    IF flag <= 0
    THEN IF goos = "solaris" THEN SolarisParallel ELSE cpus - 1
    ELSE flag

ResolveParallelSolarisAlways(flag, cpus, goos) ==
    IF goos = "solaris" THEN SolarisParallel
    ELSE IF flag <= 0
         THEN IF cpus < 2 THEN 1 ELSE cpus - 1
         ELSE flag

ResolveParallel(flag, cpus, goos) ==
    IF flag <= 0
    THEN IF goos = "solaris" THEN SolarisParallel
         ELSE IF cpus < 2 THEN 1 ELSE cpus - 1
    ELSE flag

\* number of iterations the nested loop at 125-126 performs
TotalUnits == Len(platforms) * Len(mainDirs)

\* the (platform, path) pair of iteration n (0-based) of the nested loop:
\* platforms in the outer loop, mainDirs in the inner loop
UnitAt(n) ==
    << platforms[(n \div Len(mainDirs)) + 1], mainDirs[(n % Len(mainDirs)) + 1] >>

\* name of the variable that overrides a category for a platform
EnvKey(platform, category) ==
    "GOX_" \o ToUpper(platform.OS) \o "_" \o ToUpper(platform.Arch) \o "_" \o category

\* envOverride: the value of *target after the call
EnvOverride(target, platform, category) ==
    LET v == Getenv(EnvKey(platform, category))
    IN  IF v # "" THEN target \o " " \o v ELSE target

\* cli.go:134-151  the CompileOpts of a unit: the global values, then the
\* three overrides applied to the unit's own fields
BuildOptsSwapped(path, platform, ld, gc, asm) ==
    [PackagePath |-> path,
     Platform    |-> platform,
     Ldflags     |-> EnvOverride(ld, platform, "GCFLAGS"),
     Gcflags     |-> EnvOverride(gc, platform, "LDFLAGS"),
     Asmflags    |-> EnvOverride(asm, platform, "ASMFLAGS")]

BuildOpts(path, platform, ld, gc, asm) ==
    [PackagePath |-> path,
     Platform    |-> platform,
     Ldflags     |-> EnvOverride(ld, platform, "LDFLAGS"),
     Gcflags     |-> EnvOverride(gc, platform, "GCFLAGS"),
     Asmflags    |-> EnvOverride(asm, platform, "ASMFLAGS")]

\* cli.go:156-157
ErrorMessage(platform, e) == String(platform) \o " error: " \o e

\* a send on the buffered channel can proceed iff the buffer is not full
CanSendOffByOne(ch, cap) == Len(ch) <= cap

CanSend(ch, cap) == Len(ch) < cap

\* a receive on the buffered channel can proceed iff the buffer is not empty
CanRecv(ch) == Len(ch) > 0

-----------------------------------------------------------------------------
\* the state on entry to MainCLI
MainInit ==
    /\ mainpc = "start"
    /\ parallel = 0
    /\ ldflags = ""
    /\ flagGcflags = ""
    /\ flagAsmflags = ""
    /\ mainDirs = << >>
    /\ platforms = << >>
    /\ next = 0
    /\ pc = [u \in AllUnits |-> "none"]
    /\ err = [u \in AllUnits |-> Pending]
    /\ compiles = [u \in AllUnits |-> 0]
    /\ opts = [u \in AllUnits |-> NoOpts]
    /\ semaphore = << >>
    /\ errorLock = FALSE
    /\ wg = 0
    /\ errors = << >>
    /\ stdout = << >>
    /\ stderr = << >>
    /\ exit = NoExit

Init ==
    /\ MainInit
    /\ call = NoCall
    /\ ret = NoRet

unitVars == <<pc, err, compiles, opts, semaphore, errorLock, wg, errors>>
inputVars == <<parallel, flagVars, mainDirs, platforms, next, pureVars>>

\* return code from MainCLI
Return(code) ==
    /\ mainpc' = "done"
    /\ exit' = code

-----------------------------------------------------------------------------
(* The main goroutine: preamble of MainCLI *)

\* cli.go:29-69  flags are parsed and the parallelism is resolved
ParseFlags ==
    /\ mainpc = "start"
    /\ \E flag \in -1..MaxParallelFlag, cpus \in 1..MaxCPUs, goos \in GOOSValues :
           parallel' = ResolveParallel(flag, cpus, goos)
    /\ \E f \in FlagInputs :
           /\ ldflags' = f.Ldflags
           /\ flagGcflags' = f.Gcflags
           /\ flagAsmflags' = f.Asmflags
    /\ mainpc' = "parsed"
    /\ UNCHANGED <<mainDirs, platforms, next, stdout, stderr, exit>>
    /\ UNCHANGED pureVars
    /\ UNCHANGED unitVars

\* cli.go:71-74  -version: print the build information and return 1
PrintVersion ==
    /\ mainpc = "parsed"
    /\ stderr' = Append(stderr, "info")
    /\ Return(1)
    /\ UNCHANGED <<stdout>>
    /\ UNCHANGED inputVars
    /\ UNCHANGED unitVars

\* cli.go:76-78  -build-toolchain: return whatever mainBuildToolchain returns
BuildToolchain ==
    /\ mainpc = "parsed"
    /\ \E code \in {0, 1} : Return(code)
    /\ UNCHANGED <<stdout, stderr>>
    /\ UNCHANGED inputVars
    /\ UNCHANGED unitVars

\* cli.go:80-84  exec.LookPath(flagGoCmd) fails
LookPathFailContinue ==
    /\ mainpc = "parsed"
    /\ stderr' = Append(stderr, "go executable must be on the PATH")
    /\ mainpc' = "goversion"
    /\ UNCHANGED <<stdout, exit>>
    /\ UNCHANGED inputVars
    /\ UNCHANGED unitVars

LookPathFail ==
    /\ mainpc = "parsed"
    /\ stderr' = Append(stderr, "go executable must be on the PATH")
    /\ Return(1)
    /\ UNCHANGED <<stdout>>
    /\ UNCHANGED inputVars
    /\ UNCHANGED unitVars

\* cli.go:80  exec.LookPath(flagGoCmd) succeeds
LookPathOk ==
    /\ mainpc = "parsed"
    /\ mainpc' = "goversion"
    /\ UNCHANGED <<stdout, stderr, exit>>
    /\ UNCHANGED inputVars
    /\ UNCHANGED unitVars

\* cli.go:86-90  GoVersion() fails
GoVersionFail ==
    /\ mainpc = "goversion"
    /\ stderr' = Append(stderr, "error reading Go version: err")
    /\ Return(1)
    /\ UNCHANGED <<stdout>>
    /\ UNCHANGED inputVars
    /\ UNCHANGED unitVars

\* cli.go:86  GoVersion() succeeds
GoVersionOk ==
    /\ mainpc = "goversion"
    /\ mainpc' = "listosarch"
    /\ UNCHANGED <<stdout, stderr, exit>>
    /\ UNCHANGED inputVars
    /\ UNCHANGED unitVars

\* cli.go:92-94  -osarch-list: return whatever mainListOSArch returns
ListOSArch ==
    /\ mainpc = "listosarch"
    /\ \E code \in {0, 1} : Return(code)
    /\ UNCHANGED <<stdout, stderr>>
    /\ UNCHANGED inputVars
    /\ UNCHANGED unitVars

\* cli.go:98-108  GoMainDirs fails
GoMainDirsFail ==
    /\ mainpc = "listosarch"
    /\ stderr' = Append(stderr, "Error reading packages: err")
    /\ Return(1)
    /\ UNCHANGED <<stdout>>
    /\ UNCHANGED inputVars
    /\ UNCHANGED unitVars

\* cli.go:98-104  GoMainDirs returns the main packages found in the paths
GoMainDirsOk ==
    /\ mainpc = "listosarch"
    /\ \E dirs \in DirLists : mainDirs' = dirs
    /\ mainpc' = "platforms"
    /\ UNCHANGED <<parallel, flagVars, pureVars, platforms, next, stdout, stderr, exit>>
    /\ UNCHANGED unitVars

\* cli.go:111-117  the platform selection is empty
NoPlatformsContinue ==
    /\ mainpc = "platforms"
    /\ platforms' = << >>
    /\ stdout' = Append(stdout, "No valid platforms to build for.")
    /\ mainpc' = "loop"
    /\ UNCHANGED <<parallel, flagVars, pureVars, mainDirs, next, stderr, exit>>
    /\ UNCHANGED unitVars

NoPlatforms ==
    /\ mainpc = "platforms"
    /\ platforms' = << >>
    /\ stdout' = Append(stdout, "No valid platforms to build for.")
    /\ Return(1)
    /\ UNCHANGED <<parallel, flagVars, pureVars, mainDirs, next, stderr>>
    /\ UNCHANGED unitVars

\* cli.go:111-124  a non-empty platform selection; the shared objects of the
\* dispatch (errorLock, wg, errors, semaphore) are created
SelectPlatforms ==
    /\ mainpc = "platforms"
    /\ \E ps \in SubLists(SupportedPlatforms) \ { << >> } : platforms' = ps
    /\ stdout' = Append(stdout, "Number of parallel builds: " \o ToString(parallel))
    /\ errorLock' = FALSE
    /\ wg' = 0
    /\ errors' = << >>
    /\ semaphore' = << >>
    /\ mainpc' = "loop"
    /\ UNCHANGED <<parallel, flagVars, pureVars, mainDirs, next, stderr, exit, pc, err, compiles, opts>>

-----------------------------------------------------------------------------
(* The main goroutine: dispatch loop, barrier and report *)

mainVars == <<mainpc, next, stdout, stderr, exit>>

\* cli.go:125-129, 160  one iteration of the nested loop: wg.Add(1) and the
\* go statement that starts the unit's goroutine
Spawn ==
    /\ mainpc = "loop"
    /\ next < TotalUnits
    /\ wg' = wg + 1
    /\ pc' = [pc EXCEPT ![UnitAt(next)] = "send"]
    /\ next' = next + 1
    /\ UNCHANGED <<mainpc, parallel, flagVars, pureVars, mainDirs, platforms, stdout, stderr, exit>>
    /\ UNCHANGED <<err, compiles, opts, semaphore, errorLock, errors>>

\* cli.go:125-126, 162  both ranges are exhausted
LoopExit ==
    /\ mainpc = "loop"
    /\ next >= TotalUnits
    /\ mainpc' = "wait"
    /\ UNCHANGED <<stdout, stderr, exit>>
    /\ UNCHANGED inputVars
    /\ UNCHANGED unitVars

\* cli.go:163  wg.Wait() returns once the counter is zero
WaitMissing ==
    /\ mainpc = "wait"
    /\ mainpc' = "report"
    /\ UNCHANGED <<stdout, stderr, exit>>
    /\ UNCHANGED inputVars
    /\ UNCHANGED unitVars

Wait ==
    /\ mainpc = "wait"
    /\ wg = 0
    /\ mainpc' = "report"
    /\ UNCHANGED <<stdout, stderr, exit>>
    /\ UNCHANGED inputVars
    /\ UNCHANGED unitVars

\* cli.go:165-173  the value MainCLI returns after the barrier
ExitStatusIgnoreErrors(errs) == 0

ExitStatusOffByOne(errs) == IF Len(errs) >= 0 THEN 1 ELSE 0

ExitStatus(errs) == IF Len(errs) > 0 THEN 1 ELSE 0

\* cli.go:165-169  the lines printed for a non-empty error slice
ErrorReport(errs) ==
    IF Len(errs) > 0
    THEN << ToString(Len(errs)) \o " errors occurred:" >>
         \o [k \in 1..Len(errs) |-> "--> " \o errs[k]]
    ELSE << >>

\* cli.go:165-173
Report ==
    /\ mainpc = "report"
    /\ stderr' = stderr \o ErrorReport(errors)
    /\ Return(ExitStatus(errors))
    /\ UNCHANGED <<stdout>>
    /\ UNCHANGED inputVars
    /\ UNCHANGED unitVars

-----------------------------------------------------------------------------
(* The goroutine of unit u (cli.go:129-160) *)

\* cli.go:130-131  defer wg.Done(); semaphore <- 1
Acquire(u) ==
    /\ pc[u] = "send"
    /\ CanSend(semaphore, parallel)
    /\ semaphore' = Append(semaphore, 1)
    /\ pc' = [pc EXCEPT ![u] = "compile"]
    /\ UNCHANGED <<err, compiles, opts, errorLock, wg, errors>>
    /\ UNCHANGED inputVars
    /\ UNCHANGED mainVars

\* cli.go:132-153  the options are built and GoCrossCompile returns
CompileRetry(u) ==
    /\ pc[u] = "compile"
    /\ \E e \in {Nil} \cup CompileErrors :
          /\ err' = [err EXCEPT ![u] = e]
          /\ pc' = [pc EXCEPT ![u] = IF e = Nil THEN "recv" ELSE "compile"]
    /\ compiles' = [compiles EXCEPT ![u] = @ + 1]
    /\ opts' = [opts EXCEPT ![u] =
                    BuildOpts(u[2], u[1], ldflags, flagGcflags, flagAsmflags)]
    /\ UNCHANGED <<semaphore, errorLock, wg, errors>>
    /\ UNCHANGED inputVars
    /\ UNCHANGED mainVars

\* the override is applied to the shared flag variable instead of the copy
CompileOverridesGlobal(u) ==
    /\ pc[u] = "compile"
    /\ \E e \in {Nil} \cup CompileErrors :
          /\ err' = [err EXCEPT ![u] = e]
          /\ pc' = [pc EXCEPT ![u] = IF e = Nil THEN "recv" ELSE "lock"]
    /\ compiles' = [compiles EXCEPT ![u] = @ + 1]
    /\ ldflags' = EnvOverride(ldflags, u[1], "LDFLAGS")
    /\ flagGcflags' = EnvOverride(flagGcflags, u[1], "GCFLAGS")
    /\ flagAsmflags' = EnvOverride(flagAsmflags, u[1], "ASMFLAGS")
    /\ opts' = [opts EXCEPT ![u] =
                    [PackagePath |-> u[2], Platform |-> u[1], Ldflags |-> ldflags',
                     Gcflags |-> flagGcflags', Asmflags |-> flagAsmflags']]
    /\ UNCHANGED <<semaphore, errorLock, wg, errors>>
    /\ UNCHANGED <<parallel, mainDirs, platforms, next, pureVars>>
    /\ UNCHANGED mainVars

Compile(u) ==
    /\ pc[u] = "compile"
    /\ \E e \in {Nil} \cup CompileErrors :
          /\ err' = [err EXCEPT ![u] = e]
          /\ pc' = [pc EXCEPT ![u] = IF e = Nil THEN "recv" ELSE "lock"]
    /\ compiles' = [compiles EXCEPT ![u] = @ + 1]
    /\ opts' = [opts EXCEPT ![u] =
                    BuildOpts(u[2], u[1], ldflags, flagGcflags, flagAsmflags)]
    /\ UNCHANGED <<semaphore, errorLock, wg, errors>>
    /\ UNCHANGED inputVars
    /\ UNCHANGED mainVars

\* sync.Mutex: Lock proceeds iff the mutex is not locked
CanLockAlways(l) == TRUE

CanLock(l) == ~l

\* cli.go:154-155  errorLock.Lock(); defer errorLock.Unlock()
Lock(u) ==
    /\ pc[u] = "lock"
    /\ CanLock(errorLock)
    /\ errorLock' = TRUE
    /\ pc' = [pc EXCEPT ![u] = "append"]
    /\ UNCHANGED <<err, compiles, opts, semaphore, wg, errors>>
    /\ UNCHANGED inputVars
    /\ UNCHANGED mainVars

\* cli.go:156  append(errors, msg)
AppendOverwrite(errs, msg) == << msg >>

AppendError(errs, msg) == Append(errs, msg)

\* cli.go:156-157  errors = append(errors, fmt.Sprintf(...))
Record(u) ==
    /\ pc[u] = "append"
    /\ errors' = AppendError(errors, ErrorMessage(u[1], err[u]))
    /\ pc' = [pc EXCEPT ![u] = "recv"]
    /\ UNCHANGED <<err, compiles, opts, semaphore, errorLock, wg>>
    /\ UNCHANGED inputVars
    /\ UNCHANGED mainVars

\* cli.go:159  <-semaphore; the function body ends and the deferred calls run:
\* errorLock.Unlock() first if it was deferred (155), then wg.Done() (130)
ReleaseOnSuccessOnly(u) ==
    /\ pc[u] = "recv"
    /\ IF err[u] = Nil
       THEN /\ CanRecv(semaphore)
            /\ semaphore' = Tail(semaphore)
       ELSE UNCHANGED semaphore
    /\ pc' = [pc EXCEPT ![u] = IF err[u] = Nil THEN "done" ELSE "unlock"]
    /\ UNCHANGED <<err, compiles, opts, errorLock, wg, errors>>
    /\ UNCHANGED inputVars
    /\ UNCHANGED mainVars

Release(u) ==
    /\ pc[u] = "recv"
    /\ CanRecv(semaphore)
    /\ semaphore' = Tail(semaphore)
    /\ pc' = [pc EXCEPT ![u] = IF err[u] = Nil THEN "done" ELSE "unlock"]
    /\ UNCHANGED <<err, compiles, opts, errorLock, wg, errors>>
    /\ UNCHANGED inputVars
    /\ UNCHANGED mainVars

\* cli.go:155  the deferred errorLock.Unlock()
UnlockMissing(u) ==
    /\ pc[u] = "unlock"
    /\ pc' = [pc EXCEPT ![u] = "done"]
    /\ UNCHANGED <<err, compiles, opts, semaphore, errorLock, wg, errors>>
    /\ UNCHANGED inputVars
    /\ UNCHANGED mainVars

Unlock(u) ==
    /\ pc[u] = "unlock"
    /\ errorLock' = FALSE
    /\ pc' = [pc EXCEPT ![u] = "done"]
    /\ UNCHANGED <<err, compiles, opts, semaphore, wg, errors>>
    /\ UNCHANGED inputVars
    /\ UNCHANGED mainVars

\* cli.go:130  the deferred wg.Done(); the goroutine ends
DoneMissing(u) ==
    /\ pc[u] = "done"
    /\ pc' = [pc EXCEPT ![u] = "exited"]
    /\ UNCHANGED <<err, compiles, opts, semaphore, errorLock, wg, errors>>
    /\ UNCHANGED inputVars
    /\ UNCHANGED mainVars

Done(u) ==
    /\ pc[u] = "done"
    /\ wg' = wg - 1
    /\ pc' = [pc EXCEPT ![u] = "exited"]
    /\ UNCHANGED <<err, compiles, opts, semaphore, errorLock, errors>>
    /\ UNCHANGED inputVars
    /\ UNCHANGED mainVars

-----------------------------------------------------------------------------
Next ==
    \/ ParseFlags
    \/ PrintVersion
    \/ BuildToolchain
    \/ LookPathFail
    \/ LookPathOk
    \/ GoVersionFail
    \/ GoVersionOk
    \/ ListOSArch
    \/ GoMainDirsFail
    \/ GoMainDirsOk
    \/ NoPlatforms
    \/ SelectPlatforms
    \/ Spawn
    \/ LoopExit
    \/ Wait
    \/ Report
    \/ \E u \in AllUnits : Acquire(u)
    \/ \E u \in AllUnits : Compile(u)
    \/ \E u \in AllUnits : Lock(u)
    \/ \E u \in AllUnits : Record(u)
    \/ \E u \in AllUnits : Release(u)
    \/ \E u \in AllUnits : Unlock(u)
    \/ \E u \in AllUnits : Done(u)

Spec == Init /\ [][Next]_vars

\* The Go scheduler keeps running runnable goroutines and every external
\* compile returns: some enabled step is eventually taken.
FairSpec == Spec /\ WF_vars(Next)

TypeOK ==
    /\ mainpc \in {"start", "parsed", "goversion", "listosarch", "platforms",
                   "loop", "wait", "report", "done"}
    /\ parallel \in Nat
    /\ next \in 0..TotalUnits
    /\ pc \in [AllUnits -> {"none", "send", "compile", "lock", "append", "recv",
                            "unlock", "done", "exited"}]
    /\ err \in [AllUnits -> {Pending, Nil} \cup CompileErrors]
    /\ compiles \in [AllUnits -> Nat]
    /\ errorLock \in BOOLEAN
    /\ wg \in Nat
    /\ exit \in {NoExit, 0, 1}

-----------------------------------------------------------------------------
(* The platform selection (spec 4.2): filter tokens are lists of lexemes,    *)
(* <<"linux">>, <<"!", "linux">>, <<"linux", "/", "arm">>,                   *)
(* <<"!", "linux", "/", "arm">>                                              *)

\* a token with a leading "!" is negated
IsNegated(tok) == Head(tok) = "!"

\* the token without its negation mark
Bare(tok) == IF IsNegated(tok) THEN Tail(tok) ELSE tok

\* the values named by the non-negated / the negated tokens of an OS or Arch list
PositiveValues(toks) == { Bare(t)[1] : t \in { x \in Range(toks) : ~IsNegated(x) } }
NegativeValues(toks) == { Bare(t)[1] : t \in { x \in Range(toks) : IsNegated(x) } }

\* the platform an os/arch token names
ParsePair(tok) == [OS |-> Bare(tok)[1], Arch |-> Bare(tok)[3]]

\* step 2: a positive list is the allow-set; otherwise every value of the
\* universe but the negated ones
AllowedMinusNegated(toks, values) ==
    IF PositiveValues(toks) # {}
    THEN PositiveValues(toks) \ NegativeValues(toks)
    ELSE values \ NegativeValues(toks)

Allowed(toks, values) ==
    IF PositiveValues(toks) # {}
    THEN PositiveValues(toks)
    ELSE values \ NegativeValues(toks)

\* steps 1-4, in the canonical order of the universe
SelectAdditionLast(osSpec, archSpec, osArchSpec, universe) ==
    LET allowedOS   == Allowed(osSpec, { p.OS : p \in Range(universe) })
        allowedArch == Allowed(archSpec, { p.Arch : p \in Range(universe) })
        added   == { ParsePair(t) : t \in { x \in Range(osArchSpec) : ~IsNegated(x) } }
        removed == { ParsePair(t) : t \in { x \in Range(osArchSpec) : IsNegated(x) } }
        Keep(p) == \/ (p.OS \in allowedOS /\ p.Arch \in allowedArch) /\ p \notin removed
                   \/ p \in added
    IN  SelectSeq(universe, Keep)

SelectFilteredAddition(osSpec, archSpec, osArchSpec, universe) ==
    LET allowedOS   == Allowed(osSpec, { p.OS : p \in Range(universe) })
        allowedArch == Allowed(archSpec, { p.Arch : p \in Range(universe) })
        removed == { ParsePair(t) : t \in { x \in Range(osArchSpec) : IsNegated(x) } }
        Keep(p) == /\ p.OS \in allowedOS /\ p.Arch \in allowedArch
                   /\ p \notin removed
    IN  SelectSeq(universe, Keep)

Select(osSpec, archSpec, osArchSpec, universe) ==
    LET allowedOS   == Allowed(osSpec, { p.OS : p \in Range(universe) })
        allowedArch == Allowed(archSpec, { p.Arch : p \in Range(universe) })
        added   == { ParsePair(t) : t \in { x \in Range(osArchSpec) : ~IsNegated(x) } }
        removed == { ParsePair(t) : t \in { x \in Range(osArchSpec) : IsNegated(x) } }
        Keep(p) == /\ \/ p.OS \in allowedOS /\ p.Arch \in allowedArch
                      \/ p \in added
                   /\ p \notin removed
    IN  SelectSeq(universe, Keep)

-----------------------------------------------------------------------------
(* The helpers applied on their own to every input of a bounded set *)

\* the universe of the selection examples
SelectUniverse ==
    << [OS |-> "linux",  Arch |-> "amd64"],
       [OS |-> "linux",  Arch |-> "arm"],
       [OS |-> "darwin", Arch |-> "amd64"] >>

OSTokens ==
    << <<"linux">>, <<"!", "linux">>, <<"darwin">>, <<"!", "darwin">> >>

ArchTokens ==
    << <<"amd64">>, <<"!", "amd64">>, <<"arm">>, <<"!", "arm">> >>

\* darwin/arm is not in the universe
OSArchTokens ==
    << <<"linux", "/", "amd64">>, <<"!", "linux", "/", "amd64">>,
       <<"linux", "/", "arm">>,   <<"!", "linux", "/", "arm">>,
       <<"darwin", "/", "amd64">>, <<"!", "darwin", "/", "amd64">>,
       <<"darwin", "/", "arm">>,  <<"!", "darwin", "/", "arm">> >>

ResolveParallelCalls ==
    [fn : {"ResolveParallel"}, flag : (0 - MaxSupplied)..MaxSupplied,
     cpus : 1..MaxCores, goos : GOOSValues]

SelectCalls ==
    [fn : {"Select"}, os : SubLists(OSTokens), arch : SubLists(ArchTokens),
     osarch : SubLists(OSArchTokens)]

PureInit ==
    /\ MainInit
    /\ call \in ResolveParallelCalls \cup SelectCalls
    /\ ret = NoRet

\* cli.go:54-69 applied to the call's arguments
ApplyResolveParallel ==
    /\ call.fn = "ResolveParallel"
    /\ ret = NoRet
    /\ ret' = << ResolveParallel(call.flag, call.cpus, call.goos) >>
    /\ UNCHANGED <<call, parallel, flagVars, mainDirs, platforms, next>>
    /\ UNCHANGED unitVars
    /\ UNCHANGED mainVars

\* cli.go:111  platformFlag.Platforms applied to the call's arguments
ApplySelect ==
    /\ call.fn = "Select"
    /\ ret = NoRet
    /\ ret' = << Select(call.os, call.arch, call.osarch, SelectUniverse) >>
    /\ UNCHANGED <<call, parallel, flagVars, mainDirs, platforms, next>>
    /\ UNCHANGED unitVars
    /\ UNCHANGED mainVars

PureNext ==
    \/ ApplyResolveParallel
    \/ ApplySelect

PureSpec == PureInit /\ [][PureNext]_vars

-----------------------------------------------------------------------------
(* Vocabulary of the properties *)

\* the (platform, package) pairs of the run: the full cross product
Units == Range(platforms) \X Range(mainDirs)

\* units that hold a semaphore slot: sent at 131, not yet received at 159
InFlight == { u \in AllUnits : pc[u] \in {"compile", "lock", "append", "recv"} }

\* units whose GoCrossCompile returned an error
FailedUnits == { u \in AllUnits : err[u] \in CompileErrors }

\* units between errorLock.Lock() (154) and the deferred Unlock (155)
LockHolders ==
    { u \in AllUnits : \/ pc[u] = "append"
                       \/ pc[u] \in {"recv", "unlock"} /\ err[u] \in CompileErrors }

\* units whose append at 156 has been executed
Recorded ==
    { u \in FailedUnits : pc[u] \in {"recv", "unlock", "done", "exited"} }

\* wg.Wait() at 163 has returned
PastBarrier == mainpc \in {"report", "done"} /\ platforms # << >>

FatalMessages ==
    { "go executable must be on the PATH",
      "error reading Go version: err",
      "Error reading packages: err" }

\* number of entries of the list s that equal x
Occurrences(s, x) == Cardinality({ k \in 1..Len(s) : s[k] = x })

-----------------------------------------------------------------------------
(* Properties *)

\* C1: in every reachable state the number of units that acquired a semaphore
\* slot and have not released it is at most the concurrency cap.
C1_AtMostKInFlight == Cardinality(InFlight) <= parallel

\* the cap is reached and a further unit is kept waiting at the send
C1_Witness ==
    /\ parallel >= 1
    /\ Cardinality(InFlight) = parallel
    /\ \E u \in AllUnits : pc[u] = "send"

\* C2: once some unit's compile has failed, every other unit of the run still
\* gets started, runs its compile exactly once and completes.
C2_PartialFailure ==
    \A u \in AllUnits :
        ( /\ mainpc \in {"loop", "wait"}
          /\ u \in Units
          /\ \E v \in AllUnits \ {u} : err[v] \in CompileErrors )
        ~> (pc[u] = "exited" /\ compiles[u] = 1)

\* a unit failed and another one, admitted only after it, compiled and completed
C2_Witness ==
    \E u, v \in AllUnits :
        /\ u # v
        /\ parallel = 1
        /\ err[v] \in CompileErrors
        /\ pc[v] = "exited"
        /\ err[u] = Nil
        /\ pc[u] = "exited"
        /\ compiles[u] = 1

\* C3: when the failure collection is read and the exit status decided, every
\* dispatched unit has completed: none waits for a slot, compiles or appends.
C3_Barrier ==
    PastBarrier =>
        /\ \A u \in Units : pc[u] = "exited"
        /\ \A u \in AllUnits : pc[u] \in {"none", "exited"}
        /\ wg = 0

\* the report is about to be made for a run of several units with a failure
C3_Witness ==
    /\ mainpc = "report"
    /\ Cardinality(Units) >= 2
    /\ errors # << >>

\* C4: after the barrier MainCLI returns 1 iff some unit's compile failed and
\* 0 iff every unit's compile succeeded.
C4_ExitStatus ==
    (mainpc = "done" /\ platforms # << >>) =>
        /\ exit = 1 <=> (\E u \in Units : err[u] \in CompileErrors)
        /\ exit = 0 <=> (\A u \in Units : err[u] = Nil)

\* a run returned 1 with one unit failed and another one successful
C4_Witness ==
    /\ mainpc = "done"
    /\ exit = 1
    /\ \E u, v \in Units : err[u] \in CompileErrors /\ err[v] = Nil

\* C5: under fair scheduling every unit waiting for a slot is eventually
\* admitted, and a run that reached the dispatch loop eventually returns.
C5_NoStarvation ==
    /\ \A u \in AllUnits : (pc[u] = "send") ~> (pc[u] # "send")
    /\ (mainpc = "loop") ~> (mainpc = "done" /\ exit # NoExit)

\* with a cap of one, a unit is compiling after another unit completed
C5_Witness ==
    \E u, v \in AllUnits :
        /\ parallel = 1
        /\ pc[v] = "exited"
        /\ pc[u] = "compile"

\* C6: for non-empty platform and package lists one goroutine is started per
\* pair of the cross product, and GoCrossCompile is invoked exactly once for
\* each pair: never twice at any time, and once when the barrier is passed.
C6_ExactlyOnce ==
    /\ \A u \in AllUnits : compiles[u] <= 1
    /\ \A u \in AllUnits : pc[u] # "none" => u \in Units
    /\ (mainpc \in {"wait", "report", "done"} /\ platforms # << >> /\ mainDirs # << >>) =>
          /\ next = Cardinality(Units)
          /\ \A u \in Units : pc[u] # "none"
    /\ (PastBarrier /\ mainDirs # << >>) =>
          /\ \A u \in Units : compiles[u] = 1
          /\ \A u \in AllUnits \ Units : compiles[u] = 0

\* a run over two platforms returned; one compile failed, one succeeded
C6_Witness ==
    /\ mainpc = "done"
    /\ Len(platforms) >= 2
    /\ Len(mainDirs) >= 1
    /\ FailedUnits # {}
    /\ \E u \in Units : err[u] = Nil

\* C7: when the barrier is passed the failure collection holds one record per
\* failed unit, none for a successful unit, each naming its unit's platform.
C7_FailureRecords ==
    PastBarrier =>
        /\ Len(errors) = Cardinality(FailedUnits)
        /\ \A p \in Range(SupportedPlatforms), e \in CompileErrors :
              Occurrences(errors, ErrorMessage(p, e))
                  = Cardinality({ u \in Units : u[1] = p /\ err[u] = e })

\* the barrier is passed with failures recorded for two different platforms
C7_Witness ==
    /\ mainpc = "report"
    /\ Len(errors) >= 2
    /\ \E j, k \in 1..Len(errors) : errors[j] # errors[k]

\* C8: a unit holds a slot before it starts its work and gives back exactly
\* one on either path: the tokens in the semaphore are the in-flight units,
\* and none is left once all units have completed.
C8_SlotAccounting ==
    /\ Len(semaphore) = Cardinality(InFlight)
    /\ \A u \in AllUnits : pc[u] \in {"none", "send"} => compiles[u] = 0
    /\ PastBarrier => semaphore = << >>

\* a failed unit has given its slot back while another unit holds one
C8_Witness ==
    \E u, v \in AllUnits :
        /\ err[u] \in CompileErrors
        /\ pc[u] \in {"unlock", "done", "exited"}
        /\ v \in InFlight

\* C9: at most one unit holds the error lock at any time, the mutex is locked
\* exactly while a unit holds it, and every executed append is in the slice.
C9_MutualExclusion ==
    /\ Cardinality(LockHolders) <= 1
    /\ errorLock <=> LockHolders # {}
    /\ Len(errors) = Cardinality(Recorded)

\* a failed unit is inside the append while another failed unit waits for the lock
C9_Witness ==
    \E u, v \in AllUnits : pc[u] = "append" /\ pc[v] = "lock"

\* C10: after a fatal error (toolchain executable not found, version not
\* readable, package discovery failed) MainCLI has returned 1 and no unit was
\* created, admitted to a slot or compiled.
C10_FatalAbort ==
    (\E k \in 1..Len(stderr) : stderr[k] \in FatalMessages) =>
        /\ mainpc = "done"
        /\ exit = 1
        /\ next = 0
        /\ wg = 0
        /\ semaphore = << >>
        /\ \A u \in AllUnits : pc[u] = "none" /\ compiles[u] = 0

\* package discovery failed and the run is over
C10_Witness ==
    /\ stderr = << "Error reading packages: err" >>
    /\ exit = 1

\* C11: when the platform selection is empty the run prints the "no valid
\* platforms" notice and returns 1 in that very step, with no unit started;
\* the dispatch loop is never entered with an empty platform list.
C11_EmptyPlatformSet ==
    /\ [](mainpc \in {"loop", "wait", "report"} => platforms # << >>)
    /\ [][ (mainpc = "platforms" /\ platforms' = << >>) =>
              /\ mainpc' = "done"
              /\ exit' = 1
              /\ stdout' = Append(stdout, "No valid platforms to build for.")
              /\ next' = 0
              /\ \A u \in AllUnits : pc'[u] = "none" /\ compiles'[u] = 0 ]_vars

\* packages were found, the selection was empty, the notice is out, 1 returned
C11_Witness ==
    /\ mainpc = "done"
    /\ mainDirs # << >>
    /\ platforms = << >>
    /\ stdout = << "No valid platforms to build for." >>
    /\ exit = 1

\* units whose goroutine has been started and has not ended
ActiveUnits == { u \in AllUnits : pc[u] \notin {"none", "exited"} }

\* unit u is at a blocking operation that cannot proceed
Blocked(u) ==
    \/ pc[u] = "send" /\ ~CanSend(semaphore, parallel)
    \/ pc[u] = "recv" /\ ~CanRecv(semaphore)
    \/ pc[u] = "lock" /\ ~CanLock(errorLock)

\* C18: a failing unit still holds the error lock while it gives its slot
\* back, and yet before the barrier some unit that has not ended can always
\* take a step: the remaining units are never all blocked.
C18_NoDeadlock ==
    /\ \A u \in AllUnits :
          (pc[u] = "recv" /\ err[u] \in CompileErrors) => (errorLock /\ ~Blocked(u))
    /\ (mainpc \in {"loop", "wait"} /\ ActiveUnits # {}) =>
          \E u \in ActiveUnits : ~Blocked(u)

\* a failed unit holds the lock at the receive while another failed unit,
\* holding a slot, is blocked on the lock
C18_Witness ==
    \E u, v \in AllUnits :
        /\ pc[u] = "recv"
        /\ err[u] \in CompileErrors
        /\ errorLock
        /\ pc[v] = "lock"
        /\ Blocked(v)

\* C20: with a non-empty platform list and no package found, no unit is ever
\* started and no compile invoked, the WaitGroup counter is zero so the
\* barrier is passed at once, and MainCLI returns 0.
C20_NoPackages ==
    (platforms # << >> /\ mainDirs = << >>) =>
        /\ next = 0
        /\ wg = 0
        /\ \A u \in AllUnits : pc[u] = "none" /\ compiles[u] = 0
        /\ mainpc \in {"loop", "wait", "report", "done"}
        /\ mainpc = "done" => exit = 0

\* a run over some platforms and no package has returned 0
C20_Witness ==
    /\ mainpc = "done"
    /\ platforms # << >>
    /\ mainDirs = << >>
    /\ exit = 0

\* C13: once the flags are parsed no step changes the global -ldflags,
\* -gcflags or -asmflags value; a step that writes options writes those of the
\* one unit that is compiling; and every unit that compiled holds the options
\* built from those same global values, whatever ran before it.
C13_GlobalsNotMutated ==
    /\ [][ mainpc # "start" => flagVars' = flagVars ]_vars
    /\ [][ \A u \in AllUnits :
              opts'[u] # opts[u] =>
                  /\ pc[u] = "compile"
                  /\ \A v \in AllUnits \ {u} : opts'[v] = opts[v] ]_vars
    /\ [](\A u \in AllUnits :
              compiles[u] >= 1 =>
                  opts[u] = BuildOpts(u[2], u[1], ldflags, flagGcflags, flagAsmflags))

\* with a cap of one, a unit whose platform has an LDFLAGS override ran to the
\* end, and a later unit without one got the global value as it was
C13_Witness ==
    \E u, v \in AllUnits :
        /\ parallel = 1
        /\ ldflags = "-s"
        /\ pc[u] = "exited"
        /\ opts[u].Ldflags # ldflags
        /\ pc[v] = "recv"
        /\ compiles[v] = 1
        /\ opts[v].Ldflags = "-s"

\* the override each (platform, category) has in the environment, "" for none
OverrideOf(platform, category) ==
    CASE platform.OS = "linux" /\ platform.Arch = "amd64" /\ category = "LDFLAGS"
             -> "-X main.os=linux"
      [] platform.OS = "darwin" /\ platform.Arch = "amd64" /\ category = "GCFLAGS"
             -> "-l"
      [] OTHER -> ""

\* the value the override resolution is to give
Resolved(globalDefault, platform, category) ==
    IF OverrideOf(platform, category) = ""
    THEN globalDefault
    ELSE globalDefault \o " " \o OverrideOf(platform, category)

-----------------------------------------------------------------------------
(* Properties of the helpers applied on their own *)

\* the application under study has returned
ParallelResolved == call.fn = "ResolveParallel" /\ ret # NoRet
Selected == call.fn = "Select" /\ ret # NoRet

Max(a, b) == IF a > b THEN a ELSE b

C19_CapacityAtLeastOne ==
    ParallelResolved =>
        /\ ret[1] >= 1
        /\ call.flag > 0 => ret[1] = call.flag

\* supplied 2 on solaris with 8 cores stayed 2
C19_Witness ==
    /\ call = [fn |-> "ResolveParallel", flag |-> 2, cpus |-> 8, goos |-> "solaris"]
    /\ ret = << 2 >>

\* the platforms named by the negated / non-negated os/arch tokens of the call
NegatedPairs ==
    { [OS |-> t[2], Arch |-> t[4]] : t \in { x \in Range(call.osarch) : x[1] = "!" } }
PlainPairs ==
    { [OS |-> t[1], Arch |-> t[3]] : t \in { x \in Range(call.osarch) : x[1] # "!" } }

\* the OS (Arch) values the claim's rule allows for a token list
RuleAllows(toks, values) ==
    LET plain   == { t[1] : t \in { x \in Range(toks) : x[1] # "!" } }
        negated == { t[2] : t \in { x \in Range(toks) : x[1] = "!" } }
    IN  IF plain # {} THEN plain ELSE values \ negated

\* C15: a platform named by a negated os/arch token is not in the result,
\* whatever the OS and Arch lists and whatever other os/arch tokens say.
C15_PairNegationWins ==
    Selected => \A p \in NegatedPairs : p \notin Range(ret[1])

\* linux/arm is allowed by the OS list and added by a pair token, and still
\* removed by its negated pair token
C15_Witness ==
    /\ Selected
    /\ call.os = << <<"linux">> >>
    /\ call.arch = << >>
    /\ call.osarch = << <<"linux", "/", "arm">>, <<"!", "linux", "/", "arm">> >>
    /\ ret[1] = << [OS |-> "linux", Arch |-> "amd64"] >>

\* C16: a platform of the universe named by a non-negated os/arch token and
\* by no negated one is in the result even when the OS or Arch list excludes
\* it; a non-negated token for a platform outside the universe changes
\* nothing: the result is that of the same call without the token.
C16_PairAddition ==
    Selected =>
        /\ \A p \in PlainPairs \ NegatedPairs :
              p \in Range(SelectUniverse) => p \in Range(ret[1])
        /\ Range(ret[1]) \subseteq Range(SelectUniverse)
        /\ ret[1] = Select(call.os, call.arch,
                           SelectSeq(call.osarch,
                                     LAMBDA t : \/ t[1] = "!"
                                                \/ [OS |-> t[1], Arch |-> t[3]]
                                                       \in Range(SelectUniverse)),
                           SelectUniverse)

\* linux and arm are both negated, linux/arm is added back by its pair token,
\* and the pair token darwin/arm, outside the universe, adds nothing
C16_Witness ==
    /\ Selected
    /\ call.os = << <<"!", "linux">> >>
    /\ call.arch = << <<"!", "arm">> >>
    /\ call.osarch = << <<"linux", "/", "arm">>, <<"darwin", "/", "arm">> >>
    /\ ret[1] = << [OS |-> "linux", Arch |-> "arm"], [OS |-> "darwin", Arch |-> "amd64"] >>

\* C17: a platform of the universe that no os/arch token names is in the
\* result iff its OS is allowed by the OS list and its Arch by the Arch list,
\* where a list with a non-negated token allows exactly its non-negated
\* values and any other list allows the universe's values minus the negated.
C17_AllowSets ==
    Selected =>
        \A p \in Range(SelectUniverse) \ (PlainPairs \cup NegatedPairs) :
            p \in Range(ret[1]) <=>
                /\ p.OS \in RuleAllows(call.os, { q.OS : q \in Range(SelectUniverse) })
                /\ p.Arch \in RuleAllows(call.arch, { q.Arch : q \in Range(SelectUniverse) })

\* an OS list with linux both plain and negated allows linux; an Arch list of
\* negations only allows the other Arch
C17_Witness ==
    /\ Selected
    /\ call.os = << <<"linux">>, <<"!", "linux">> >>
    /\ call.arch = << <<"!", "arm">> >>
    /\ call.osarch = << >>
    /\ ret[1] = << [OS |-> "linux", Arch |-> "amd64"] >>

====
